---- MODULE Spec2Model ----
(***************************************************************************)
(* FileController of core/classes/FileUtils.py: the multipart upload       *)
(* handler (on_post), the base64 upload handler (on_post_base64) and the   *)
(* helpers they call.  One handler invocation is one behaviour: Init picks *)
(* the handler and the request's id and session, every action is one step  *)
(* of the handler and draws the inputs that step reads.                    *)
(*                                                                         *)
(* Strings (file names, base64 text) are sequences of one-character        *)
(* strings, byte strings are sequences of numbers.  Sizes are scaled down: *)
(* CHUNK_SIZE is 2 instead of 8192 and max_file_size is 3 bytes.           *)
(***************************************************************************)
EXTENDS Integers, Sequences, FiniteSets, TLC

\* ------------------------------------------------------------- bounds ----
\* longest multipart stream, in bytes
MaxLen == 5
\* most parts in a multipart form
MaxParts == 2
\* longest base64 text of a JSON envelope, in characters
MaxB64Len == 5
\* longest base64 text handed to get_base64_file_length directly
MaxB64ArgLen == 8
\* longest file name handed to create_thumbnail directly
MaxNameLen == 5

\* ------------------------------------------------- program constants ----
\* FileController.CHUNK_SIZE (8192 in the source, scaled)
CHUNK_SIZE == 2
\* self.max_file_size, read from the [FILES] section of the configuration
max_file_size == 3
\* self.accepted_files, read from the [FILES] section of the configuration
accepted_files == {"image/jpeg", "image/png", "application/pdf"}
IMAGE_EXTENSIONS == {"image/jpeg", "image/png", "image/jpg"}
\* Controller.PROBLEM_SAVING_TO_DB, the message of a failed create_file
PROBLEM_SAVING_TO_DB == "PROBLEM_SAVING_TO_DB"

\* ---------------------------------------------------- input domains ----
ContentTypes == {"image/png", "application/pdf", "image/gif"}
StreamBytes == {0, 1}
NameChars == {"a", "b", "."}
B64Chars == {"i", "J", "Q", "="}
\* values of a query parameter: absent, "True", and a near miss
ParamValues == {"None", "True", "true"}

SeqsUpTo(S, n) == UNION {[1..k -> S] : k \in 0..n}

Min(a, b) == IF a < b THEN a ELSE b

\* file names a request carries
FileNames == {<<"a">>, <<"a", ".", "b">>, <<"a", ".", "b", ".", "a">>}

Part(ct, fn, st) == [content_type |-> ct, filename |-> fn, stream |-> st]

\* the part the handler processes, and the parts that may follow it
FirstParts == {Part(ct, fn, st) : ct \in ContentTypes, fn \in FileNames,
                                  st \in SeqsUpTo(StreamBytes, MaxLen)}
MoreParts == {Part("image/png", <<"b">>, <<1>>), Part("image/gif", <<"b">>, <<>>)}
Forms == {<<>>} \cup
         {<<p>> \o rest : p \in FirstParts, rest \in SeqsUpTo(MoreParts, MaxParts - 1)}

\* ---------------------------------------------------- file contents ----
\* A file content is a byte string or a BytesIO; the image library's
\* transformations are recorded, in order, on the bytes they were applied to.
Bytes(b) == [type |-> "bytes", transforms |-> <<>>, of |-> b]
NoContent == [type |-> "None", transforms |-> <<>>, of |-> <<>>]

\* Image.open(io.BytesIO(data)): what the image library wrote always opens, no
\* bytes at all never open, other bytes open when they hold a whole image.
ImageOpens(data) ==
    IF data.transforms # <<>> THEN {TRUE}
    ELSE IF data.of = <<>> THEN {FALSE} ELSE BOOLEAN

compress_image(image_data) ==
    [type |-> "BytesIO",
     transforms |-> Append(image_data.transforms, "save_optimize_quality65"),
     of |-> image_data.of]

create_thumbnail_image(image_data) ==
    [type |-> "BytesIO",
     transforms |-> Append(image_data.transforms, "thumbnail_640x640"),
     of |-> image_data.of]

\* b"".join(data)
RECURSIVE Join(_)
Join(chunks) == IF chunks = <<>> THEN <<>> ELSE Head(chunks) \o Join(Tail(chunks))

\* ------------------------------------------------------ small checks ----
\* (variant: a list that also lets image/gif and image/bmp through)
check_if_valid_content_type_mut(content_type) ==
    content_type \in accepted_files \cup {"image/gif", "image/bmp"}
check_if_valid_content_type(content_type) == content_type \in accepted_files

\* (variant: the limit taken one byte too high)
stream_too_large_mut(read_so_far) == read_so_far > max_file_size + 1
\* the size test of process_stream's read loop
stream_too_large(read_so_far) == read_so_far > max_file_size

check_if_make_thumbnail(params) == params.thumbnail = "True"
check_if_public_file(params) == params.public = "True"
check_if_private_file(params) == params.private = "True"

\* ------------------------------------------------------ python strings ----
\* a slice index of a string of length n, as str.count adjusts it
SliceIndex(i, n) == IF i < 0 THEN (IF i + n < 0 THEN 0 ELSE i + n)
                    ELSE IF i > n THEN n ELSE i

\* s.count(c, start, end): the occurrences of the character c in s[start:end]
StrCount(s, c, start, end) ==
    LET a == SliceIndex(start, Len(s))
        b == SliceIndex(end, Len(s))
    IN Cardinality({p \in (a + 1)..b : s[p] = c})

\* s.split("."): the pieces of s between its dots, empty pieces included
RECURSIVE Split(_)
Split(s) ==
    IF s = <<>> THEN << <<>> >>
    ELSE LET rest == Split(Tail(s))
         IN IF Head(s) = "." THEN << <<>> >> \o rest
            ELSE << <<Head(s)>> \o Head(rest) >> \o Tail(rest)

THUMBNAIL == <<"_", "t", "h", "u", "m", "b", "n", "a", "i", "l">>

\* ------------------------------------------------------------ base64 ----
\* the 6-bit value of a base64 character; 64 for a character outside the alphabet
B64Value(c) == CASE c = "i" -> 34 [] c = "J" -> 9 [] c = "Q" -> 16 [] OTHER -> 64

\* binascii.a2b_base64(s) without strict mode, from character i on: quad_pos is
\* the position in the current group of four, leftchar the bits not yet
\* written, pads the '=' seen since the last data character.
RECURSIVE a2b_base64(_, _, _, _, _, _)
a2b_base64(s, i, quad_pos, leftchar, pads, out) ==
    IF i > Len(s)
    THEN IF quad_pos # 0 THEN [ok |-> FALSE, bytes |-> <<>>]
         ELSE [ok |-> TRUE, bytes |-> out]
    ELSE IF s[i] = "="
    THEN IF quad_pos >= 2 /\ quad_pos + pads + 1 >= 4
         THEN [ok |-> TRUE, bytes |-> out]
         ELSE a2b_base64(s, i + 1, quad_pos, leftchar,
                         IF quad_pos >= 2 THEN pads + 1 ELSE pads, out)
    ELSE IF B64Value(s[i]) >= 64
    THEN a2b_base64(s, i + 1, quad_pos, leftchar, pads, out)
    ELSE LET v == B64Value(s[i])
         IN CASE quad_pos = 0 -> a2b_base64(s, i + 1, 1, v, 0, out)
              [] quad_pos = 1 ->
                   a2b_base64(s, i + 1, 2, v % 16, 0,
                              Append(out, leftchar * 4 + v \div 16))
              [] quad_pos = 2 ->
                   a2b_base64(s, i + 1, 3, v % 4, 0,
                              Append(out, leftchar * 16 + v \div 4))
              [] OTHER ->
                   a2b_base64(s, i + 1, 0, 0, 0, Append(out, leftchar * 64 + v))

\* base64.b64decode(base64_info): ok is FALSE where it raises binascii.Error
decode_base64_file(base64_info) == a2b_base64(base64_info, 1, 0, 0, 0, <<>>)

\* (len(b64string) * 3) / 4 - b64string.count("=", -1, -5), a float in the
\* source; here in quarters of a byte, four times the value returned
get_base64_file_length(b64string) ==
    Len(b64string) * 3 - 4 * StrCount(b64string, "=", -1, -5)

\* (variant: the limit taken one byte too high)
base64_too_large_mut(b64string) ==
    get_base64_file_length(b64string) > 4 * (max_file_size + 1)
\* the size test of get_base64_info
base64_too_large(b64string) ==
    get_base64_file_length(b64string) > 4 * max_file_size

\* filetype.guess(data): the type the first byte announces, "None" when the
\* data matches no known signature
guess(data) ==
    IF data = <<>> THEN "None"
    ELSE CASE data[1] = 137 -> "image/png"
           [] data[1] = 37 -> "application/pdf"
           [] data[1] = 66 -> "image/bmp"
           [] OTHER -> "None"

\* ------------------------------------------------------- process_file ----
\* one create_file call: its arguments, and whether it returned a record
CreateFileCall(file_name, content, file_type, is_thumbnail, encode_to_base64, public, private, saved) ==
    [file_name |-> file_name, content |-> content, file_type |-> file_type,
     user |-> "session.user", is_thumbnail |-> is_thumbnail,
     encode_to_base64 |-> encode_to_base64, public |-> public, private |-> private,
     saved |-> saved]

\* entries of a response: a serialized File, or an error entry
NoEntry == [kind |-> "None", name |-> <<>>, is_thumbnail |-> 0, message |-> "None"]
serialize_model(call) ==
    [kind |-> "File", name |-> call.file_name, is_thumbnail |-> call.is_thumbnail,
     message |-> "None"]
FileError(filename) ==
    [kind |-> "Filename/Error", name |-> filename, is_thumbnail |-> 0,
     message |-> PROBLEM_SAVING_TO_DB]
ThumbnailError(filename) ==
    [kind |-> "Filename_thumbnail/error", name |-> filename, is_thumbnail |-> 0,
     message |-> PROBLEM_SAVING_TO_DB]

\* the name create_thumbnail gives the thumbnail of filename
thumbnail_name(filename) ==
    LET pieces == Split(filename)
    IN pieces[1] \o THUMBNAIL \o
       (IF Len(pieces) > 1 THEN <<".">> \o pieces[2] ELSE <<>>)

\* create_thumbnail, once create_thumbnail_image has returned: the create_file
\* call it makes
create_thumbnail(image_data, filename, content_type, encode_to_base64, public, private, saved) ==
    CreateFileCall(thumbnail_name(filename), create_thumbnail_image(image_data),
                   content_type, 1, encode_to_base64, public, FALSE, saved)

\* the test that guards the thumbnail branch of process_file
wants_thumbnail(make_thumbnail, content_type) ==
    make_thumbnail /\ content_type \in IMAGE_EXTENSIONS

\* (variant: the failure answered with the status of a success)
primary_failed_mut(filename, primary) ==
    [calls |-> <<primary>>, raised |-> "None", file |-> FileError(filename),
     thumbnail |-> NoEntry, code |-> 201]
\* what process_file does once the primary create_file has returned no record
primary_failed(filename, primary) ==
    [calls |-> <<primary>>, raised |-> "None", file |-> FileError(filename),
     thumbnail |-> NoEntry, code |-> 500]

\* process_file.  file_saved and thumbnail_saved say whether the two
\* create_file calls return a record, opens whether Image.open accepts the
\* data in create_thumbnail_image.  The result holds the create_file calls made,
\* the exception raised ("None" when it returns) and the tuple returned.
process_file(filename, data, content_type, encode_to_base64, make_thumbnail, public, private, file_saved, opens, thumbnail_saved) ==
    LET primary == CreateFileCall(filename, data, content_type, 0,
                                  encode_to_base64, public, private, file_saved)
        thumb == create_thumbnail(data, filename, content_type, encode_to_base64,
                                  public, private, thumbnail_saved)
    IN IF ~file_saved THEN primary_failed(filename, primary)
       ELSE IF ~wants_thumbnail(make_thumbnail, content_type)
       THEN [calls |-> <<primary>>, raised |-> "None",
             file |-> serialize_model(primary), thumbnail |-> NoEntry, code |-> 201]
       ELSE IF ~opens
       THEN [calls |-> <<primary>>, raised |-> "UnidentifiedImageError",
             file |-> NoEntry, thumbnail |-> NoEntry, code |-> 0]
       ELSE [calls |-> <<primary, thumb>>, raised |-> "None",
             file |-> serialize_model(primary),
             thumbnail |-> IF thumbnail_saved THEN serialize_model(thumb)
                           ELSE ThumbnailError(filename),
             code |-> 201]

\* -------------------------------------------------------------- state ----
VARIABLES
    handler,        \* the method invoked
    id,             \* the id of the route, 0 when there is none
    session,        \* whether get_session finds a session
    params,         \* the query parameters, once read
    form,           \* the parts of the multipart form, once req.get_media() ran
    body,           \* the JSON envelope, once req.stream was read
    pc,             \* the handler's position
    data,           \* process_stream: the chunks read so far
    read_so_far,    \* process_stream: the bytes read so far
    reads,          \* the read calls made on the part's stream
    stream_content, \* what process_stream returned
    b64_length,     \* what get_base64_file_length returned, -1 before
    decodes,        \* the decode_base64_file calls made
    base64_decoded, \* what decode_base64_file returned
    mimetype,       \* what get_mimetype returned
    calls,          \* the create_file calls made, in order
    resp,           \* the response: how often self.response ran, and with what
    exc             \* the exception that left the handler, "None" when none did

vars == <<handler, id, session, params, form, body, pc, data, read_so_far, reads,
          stream_content, b64_length, decodes, base64_decoded, mimetype, calls,
          resp, exc>>

NoParams == [thumbnail |-> "None", public |-> "None", private |-> "None"]
Params == [thumbnail : ParamValues, public : {"None", "True"},
           private : {"None", "True"}]
NoBody == [json |-> "None", file_name |-> <<>>, base64 |-> <<>>]
NoResponse == [count |-> 0, status |-> 0, error |-> "None", data |-> <<>>,
               is_list |-> FALSE]

\* self.response(resp, status, data) and self.response(resp, status, error=...)
Respond(status, error, entries, is_list) ==
    [count |-> resp.count + 1, status |-> status, error |-> error,
     data |-> entries, is_list |-> is_list]

\* the JSON envelopes a request carries: no JSON at all, JSON that is no
\* object, and objects whose file_name and base64 are strings (an absent field
\* and an empty string are both the empty string here: the handler tests them
\* with "not")
Bodies == {[json |-> "invalid", file_name |-> <<>>, base64 |-> <<>>],
           [json |-> "not_object", file_name |-> <<>>, base64 |-> <<>>]} \cup
          [json : {"object"}, file_name : FileNames \cup {<<>>},
           base64 : SeqsUpTo(B64Chars, MaxB64Len)]

\* the state as a method is entered
Entered(method, parts, envelope) ==
    /\ handler = method
    /\ pc = method
    /\ form = parts
    /\ body = envelope
    /\ params = NoParams
    /\ data = <<>>
    /\ read_so_far = 0
    /\ reads = 0
    /\ stream_content = NoContent
    /\ b64_length = -1
    /\ decodes = 0
    /\ base64_decoded = <<>>
    /\ mimetype = "None"
    /\ calls = <<>>
    /\ resp = NoResponse
    /\ exc = "None"

Init ==
    /\ id \in {0, 1}
    /\ session \in BOOLEAN
    /\ \E method \in {"on_post", "on_post_base64"} : Entered(method, <<>>, NoBody)

\* the part on_post's loop is at: the first one
part == form[1]

\* ------------------------------------------------------------ on_post ----
\* on_post up to the head of its loop: the id and session checks, the query
\* parameters, req.get_media().  With no part the loop body never runs and the
\* response after the loop reads the unbound code and data.
OnPostEntry ==
    /\ pc = "on_post"
    /\ IF id # 0
       THEN /\ resp' = Respond(405, "None", <<>>, FALSE)
            /\ pc' = "done"
            /\ UNCHANGED <<params, form, exc>>
       ELSE IF ~session
       THEN /\ pc' = "done"
            /\ UNCHANGED <<params, form, resp, exc>>
       ELSE \E p \in Params, f \in Forms :
            /\ params' = p
            /\ form' = f
            /\ IF f = <<>>
               THEN pc' = "done" /\ exc' = "UnboundLocalError"
               ELSE pc' = "process_stream" /\ exc' = exc
            /\ resp' = resp
    /\ UNCHANGED <<handler, id, session, body, data, read_so_far, reads,
                   stream_content, b64_length, decodes, base64_decoded, mimetype,
                   calls>>

\* the except clause of on_post's loop body: a bad-request response, then return
BadRequest(error) ==
    /\ resp' = Respond(400, error, <<>>, FALSE)
    /\ pc' = "done"

\* process_stream, its first line: the content type check
ProcessStreamCheckType ==
    /\ pc = "process_stream"
    /\ IF check_if_valid_content_type(part.content_type)
       THEN pc' = "read_loop" /\ resp' = resp
       ELSE BadRequest("ContentTypeNotAllowed")
    /\ UNCHANGED <<handler, id, session, params, form, body, data, read_so_far,
                   reads, stream_content, b64_length, decodes, base64_decoded,
                   mimetype, calls, exc>>

\* process_stream, one turn of its loop: part.stream.read(CHUNK_SIZE) gives
\* between one and CHUNK_SIZE of the bytes left, or nothing at the end
ProcessStreamRead ==
    /\ pc = "read_loop"
    /\ reads' = reads + 1
    /\ LET left == Len(part.stream) - read_so_far
       IN IF left = 0
          THEN /\ pc' = "read_done"
               /\ UNCHANGED <<data, read_so_far, resp>>
          ELSE \E n \in 1..Min(CHUNK_SIZE, left) :
               /\ data' = Append(data, SubSeq(part.stream, read_so_far + 1,
                                              read_so_far + n))
               /\ read_so_far' = read_so_far + n
               /\ IF stream_too_large(read_so_far + n)
                  THEN BadRequest("FileSizeGreaterThanAllowed")
                  ELSE pc' = "read_loop" /\ resp' = resp
    /\ UNCHANGED <<handler, id, session, params, form, body, stream_content,
                   b64_length, decodes, base64_decoded, mimetype, calls, exc>>

\* (variant: the chunks joined last to first)
joined_mut(chunks) == IF chunks = <<>> THEN <<>> ELSE Join(Tail(chunks)) \o Head(chunks)
\* what process_stream returns for a part that is no image
joined(chunks) == Join(chunks)

\* process_stream after its loop: images are compressed, other data is joined
ProcessStreamReturn ==
    /\ pc = "read_done"
    /\ IF part.content_type \in IMAGE_EXTENSIONS
       THEN \E opens \in ImageOpens(Bytes(joined(data))) :
            IF opens
            THEN /\ stream_content' = compress_image(Bytes(joined(data)))
                 /\ pc' = "process_file"
                 /\ resp' = resp
            ELSE /\ BadRequest("UnidentifiedImageError")
                 /\ stream_content' = stream_content
       ELSE /\ stream_content' = Bytes(joined(data))
            /\ pc' = "process_file"
            /\ resp' = resp
    /\ UNCHANGED <<handler, id, session, params, form, body, data, read_so_far,
                   reads, b64_length, decodes, base64_decoded, mimetype, calls,
                   exc>>

\* the entries on_post answers with: [file_data], and thumbnail_data when there
\* is one
ResponseList(r) ==
    IF r.thumbnail = NoEntry THEN <<r.file>> ELSE <<r.file, r.thumbnail>>

\* the rest of on_post's loop body, the break and the response after the loop
OnPostProcessFile ==
    /\ pc = "process_file"
    /\ handler = "on_post"
    /\ \E file_saved \in BOOLEAN, thumbnail_saved \in BOOLEAN,
          opens \in ImageOpens(stream_content) :
          LET r == process_file(part.filename, stream_content, part.content_type,
                                FALSE, check_if_make_thumbnail(params),
                                check_if_public_file(params),
                                check_if_private_file(params),
                                file_saved, opens, thumbnail_saved)
          IN /\ calls' = calls \o r.calls
             /\ IF r.raised # "None"
                THEN exc' = r.raised /\ resp' = resp
                ELSE /\ resp' = Respond(r.code, "None", ResponseList(r), TRUE)
                     /\ exc' = exc
    /\ pc' = "done"
    /\ UNCHANGED <<handler, id, session, params, form, body, data, read_so_far,
                   reads, stream_content, b64_length, decodes, base64_decoded,
                   mimetype>>

\* ----------------------------------------------------- on_post_base64 ----
\* on_post_base64, its id and session checks
OnPostBase64Entry ==
    /\ pc = "on_post_base64"
    /\ IF id # 0
       THEN resp' = Respond(405, "None", <<>>, FALSE) /\ pc' = "done"
       ELSE IF ~session
       THEN pc' = "done" /\ resp' = resp
       ELSE pc' = "get_base64_info" /\ resp' = resp
    /\ UNCHANGED <<handler, id, session, params, form, body, data, read_so_far,
                   reads, stream_content, b64_length, decodes, base64_decoded,
                   mimetype, calls, exc>>

\* get_base64_info and the test of its result in on_post_base64.  json.loads
\* is inside the try; data.get is not, and raises on JSON that is no object.
GetBase64Info ==
    /\ pc = "get_base64_info"
    /\ \E b \in Bodies :
       /\ body' = b
       /\ IF b.json = "invalid"
          THEN BadRequest("JSONDecodeError") /\ UNCHANGED <<exc, b64_length>>
          ELSE IF b.json = "not_object"
          THEN /\ exc' = "AttributeError"
               /\ pc' = "done"
               /\ UNCHANGED <<resp, b64_length>>
          ELSE IF b.file_name = <<>> \/ b.base64 = <<>>
          THEN BadRequest("file_name and base64 needed")
               /\ UNCHANGED <<exc, b64_length>>
          ELSE /\ b64_length' = get_base64_file_length(b.base64)
               /\ exc' = exc
               /\ IF base64_too_large(b.base64)
                  THEN BadRequest("larger than 4mb")
                  ELSE pc' = "decode_base64_file" /\ resp' = resp
    /\ UNCHANGED <<handler, id, session, params, form, data, read_so_far, reads,
                   stream_content, decodes, base64_decoded, mimetype, calls>>

\* base64_decoded = self.decode_base64_file(base64_info), outside any try
DecodeBase64File ==
    /\ pc = "decode_base64_file"
    /\ handler = "on_post_base64"
    /\ decodes' = decodes + 1
    /\ LET r == decode_base64_file(body.base64)
       IN IF r.ok
          THEN /\ base64_decoded' = r.bytes
               /\ pc' = "get_mimetype"
               /\ exc' = exc
          ELSE /\ exc' = "binascii.Error"
               /\ pc' = "done"
               /\ base64_decoded' = base64_decoded
    /\ UNCHANGED <<handler, id, session, params, form, body, data, read_so_far,
                   reads, stream_content, b64_length, mimetype, calls, resp>>

\* mimetype = self.get_mimetype(base64_decoded): filetype.guess(data).mime,
\* outside any try; guess returns None for data it does not know
GetMimetype ==
    /\ pc = "get_mimetype"
    /\ IF guess(base64_decoded) = "None"
       THEN exc' = "AttributeError" /\ pc' = "done" /\ mimetype' = mimetype
       ELSE /\ mimetype' = guess(base64_decoded)
            /\ pc' = "check_content_type"
            /\ exc' = exc
    /\ UNCHANGED <<handler, id, session, params, form, body, data, read_so_far,
                   reads, stream_content, b64_length, decodes, base64_decoded,
                   calls, resp>>

\* the try around check_if_valid_content_type(mimetype)
CheckContentTypeBase64 ==
    /\ pc = "check_content_type"
    /\ IF check_if_valid_content_type(mimetype)
       THEN pc' = "process_file" /\ resp' = resp
       ELSE BadRequest("ContentTypeNotAllowed")
    /\ UNCHANGED <<handler, id, session, params, form, body, data, read_so_far,
                   reads, stream_content, b64_length, decodes, base64_decoded,
                   mimetype, calls, exc>>

\* the rest of on_post_base64: the query parameters, process_file on the
\* decoded bytes, the response
OnPostBase64ProcessFile ==
    /\ pc = "process_file"
    /\ handler = "on_post_base64"
    /\ \E p \in Params, file_saved \in BOOLEAN, thumbnail_saved \in BOOLEAN,
          opens \in ImageOpens(Bytes(base64_decoded)) :
          LET r == process_file(body.file_name, Bytes(base64_decoded), mimetype,
                                FALSE, check_if_make_thumbnail(p),
                                check_if_public_file(p), check_if_private_file(p),
                                file_saved, opens, thumbnail_saved)
          IN /\ params' = p
             /\ calls' = calls \o r.calls
             /\ IF r.raised # "None"
                THEN exc' = r.raised /\ resp' = resp
                ELSE /\ resp' = Respond(r.code, "None", ResponseList(r),
                                        r.thumbnail # NoEntry)
                     /\ exc' = exc
    /\ pc' = "done"
    /\ UNCHANGED <<handler, id, session, form, body, data, read_so_far, reads,
                   stream_content, b64_length, decodes, base64_decoded, mimetype>>

Next ==
    \/ OnPostEntry
    \/ ProcessStreamCheckType
    \/ ProcessStreamRead
    \/ ProcessStreamReturn
    \/ OnPostProcessFile
    \/ OnPostBase64Entry
    \/ GetBase64Info
    \/ DecodeBase64File
    \/ GetMimetype
    \/ CheckContentTypeBase64
    \/ OnPostBase64ProcessFile

Spec == Init /\ [][Next]_vars

\* ------------------------------------ get_base64_file_length on its own ----
B64ArgChars == {"Q", "i", "="}

InitBase64Length ==
    /\ id = 0
    /\ session = TRUE
    /\ \E s \in SeqsUpTo(B64ArgChars, MaxB64ArgLen) :
          Entered("get_base64_file_length",
                  <<>>, [json |-> "object", file_name |-> <<"a">>, base64 |-> s])

\* get_base64_file_length(b64string) on the text of the envelope
GetBase64FileLengthCall ==
    /\ pc = "get_base64_file_length"
    /\ b64_length' = get_base64_file_length(body.base64)
    /\ pc' = "decode_base64_file"
    /\ UNCHANGED <<handler, id, session, params, form, body, data, read_so_far,
                   reads, stream_content, decodes, base64_decoded, mimetype,
                   calls, resp, exc>>

\* decode_base64_file(base64_info) on the same text, for the length it has
DecodeBase64FileCall ==
    /\ pc = "decode_base64_file"
    /\ handler = "get_base64_file_length"
    /\ decodes' = decodes + 1
    /\ LET r == decode_base64_file(body.base64)
       IN IF r.ok
          THEN base64_decoded' = r.bytes /\ exc' = exc
          ELSE base64_decoded' = base64_decoded /\ exc' = "binascii.Error"
    /\ pc' = "done"
    /\ UNCHANGED <<handler, id, session, params, form, body, data, read_so_far,
                   reads, stream_content, b64_length, mimetype, calls, resp>>

NextBase64Length == GetBase64FileLengthCall \/ DecodeBase64FileCall

SpecBase64Length == InitBase64Length /\ [][NextBase64Length]_vars

\* ------------------------------------------ create_thumbnail on its own ----
InitThumbnailName ==
    /\ id = 0
    /\ session = TRUE
    /\ \E fn \in SeqsUpTo(NameChars, MaxNameLen) :
          Entered("create_thumbnail", <<Part("image/png", fn, <<1>>)>>, NoBody)

\* create_thumbnail(image_data, filename, content_type, ...) on an image that
\* opens
CreateThumbnailCall ==
    /\ pc = "create_thumbnail"
    /\ \E p \in Params, saved \in BOOLEAN :
       /\ params' = p
       /\ calls' = Append(calls,
             create_thumbnail(compress_image(Bytes(part.stream)), part.filename,
                              part.content_type, FALSE, check_if_public_file(p),
                              check_if_private_file(p), saved))
    /\ pc' = "done"
    /\ UNCHANGED <<handler, id, session, form, body, data, read_so_far, reads,
                   stream_content, b64_length, decodes, base64_decoded, mimetype,
                   resp, exc>>

NextThumbnailName == CreateThumbnailCall

SpecThumbnailName == InitThumbnailName /\ [][NextThumbnailName]_vars

\* ====================================================== properties ====
\* the content type is in the configured list
Accepted(content_type) == content_type \in accepted_files
\* the multipart handler has taken a part and is processing it
OnPart == handler = "on_post" /\ form # <<>>
\* the length of that part's stream
L == Len(part.stream)
\* process_stream has returned, or the handler has ended
StreamSettled == pc \in {"process_file", "done"}

\* C1 as stated: every part whose stream is longer than max_file_size ends in
\* FileSizeGreaterThanAllowed, process_stream returns nothing and create_file
\* is not called.
C1_AsStated ==
    (OnPart /\ L > max_file_size /\ StreamSettled) =>
        /\ resp.error = "FileSizeGreaterThanAllowed"
        /\ stream_content = NoContent
        /\ calls = <<>>

\* C1 amended: a part whose stream is longer than max_file_size never gets
\* through process_stream, whatever the chunks: the handler ends with a 400
\* answer, FileSizeGreaterThanAllowed when the content type is accepted and
\* ContentTypeNotAllowed when it is not; nothing is returned and create_file is
\* not called.
C1_Amended ==
    (OnPart /\ L > max_file_size) =>
        /\ pc \notin {"read_done", "process_file"}
        /\ stream_content = NoContent
        /\ calls = <<>>
        /\ exc = "None"
        /\ pc = "done" =>
             /\ resp.count = 1
             /\ resp.status = 400
             /\ resp.error = IF Accepted(part.content_type)
                             THEN "FileSizeGreaterThanAllowed"
                             ELSE "ContentTypeNotAllowed"

\* a stream longer than the limit, read in several chunks, was refused
C1_Witness ==
    /\ OnPart /\ L > max_file_size /\ pc = "done"
    /\ resp.error = "FileSizeGreaterThanAllowed"
    /\ Len(data) >= 2
    /\ read_so_far < L

\* C2 as stated: for an accepted content type and a stream no longer than
\* max_file_size, what process_stream returns is exactly the bytes of the
\* stream.
C2_AsStated ==
    (OnPart /\ Accepted(part.content_type)
            /\ L <= max_file_size /\ pc = "process_file") =>
        stream_content = Bytes(part.stream)

\* C2 amended: for an accepted content type that is no image type and a stream
\* no longer than max_file_size, process_stream returns exactly the bytes of
\* the stream, whatever the chunks; for an accepted image type it returns the
\* image compressed from those bytes, or raises when they do not open as an
\* image.  In neither case is the size error raised.
C2_Amended ==
    (OnPart /\ Accepted(part.content_type)
            /\ L <= max_file_size) =>
        /\ resp.error # "FileSizeGreaterThanAllowed"
        /\ StreamSettled =>
             IF part.content_type \notin IMAGE_EXTENSIONS
             THEN /\ stream_content = Bytes(part.stream)
                  /\ resp.status # 400
             ELSE \/ stream_content = compress_image(Bytes(part.stream))
                  \/ /\ stream_content = NoContent
                     /\ resp.error = "UnidentifiedImageError"

\* a stream of exactly max_file_size bytes, read in several chunks, returned whole
C2_Witness ==
    /\ OnPart /\ pc = "process_file"
    /\ part.content_type = "application/pdf"
    /\ L = max_file_size
    /\ Len(data) >= 2
    /\ stream_content = Bytes(part.stream)

\* the empty stream returned as the empty byte string
C2_WitnessEmpty ==
    /\ OnPart /\ pc = "process_file" /\ L = 0
    /\ stream_content = Bytes(<<>>)

\* base64 text as an encoder writes it: groups of four characters, '=' only as
\* the last one or two characters
ValidlyPadded(s) ==
    /\ Len(s) % 4 = 0
    /\ \A i \in 1..Len(s) : s[i] = "=" => i >= Len(s) - 1
    /\ (Len(s) > 0 /\ s[Len(s)] # "=") => s[Len(s) - 1] # "="
    /\ (Len(s) > 0 /\ s[Len(s) - 1] = "=") => s[Len(s)] = "="

\* C3: for validly padded base64 text that decodes to N bytes,
\* get_base64_file_length returns N (b64_length is in quarters of a byte).
C3_AsStated ==
    (handler = "get_base64_file_length" /\ pc = "done" /\ exc = "None"
        /\ ValidlyPadded(body.base64)) =>
        b64_length = 4 * Len(base64_decoded)

\* C4 as stated: on both paths ContentTypeNotAllowed is answered before any
\* stream read and before any base64 decode.
C4_AsStated ==
    resp.error = "ContentTypeNotAllowed" => (reads = 0 /\ decodes = 0)

\* C4 amended: on the multipart path a part whose content type is not accepted
\* is refused with ContentTypeNotAllowed before any read of its stream; on the
\* base64 path the content type is the one detected in the decoded bytes, so
\* the one base64 decode precedes the check, and a type that is not accepted is
\* refused with ContentTypeNotAllowed before any create_file call.
C4_Amended ==
    /\ (OnPart /\ ~Accepted(part.content_type)) =>
          /\ reads = 0 /\ data = <<>> /\ decodes = 0 /\ calls = <<>>
          /\ pc \in {"process_stream", "done"}
          /\ pc = "done" => (resp.count = 1 /\ resp.status = 400
                             /\ resp.error = "ContentTypeNotAllowed")
    /\ (handler = "on_post_base64" /\ mimetype # "None"
            /\ ~Accepted(mimetype)) =>
          /\ decodes = 1 /\ calls = <<>>
          /\ pc \in {"check_content_type", "done"}
          /\ pc = "done" => (resp.count = 1 /\ resp.status = 400
                             /\ resp.error = "ContentTypeNotAllowed")
    /\ resp.error = "ContentTypeNotAllowed" =>
          IF handler = "on_post"
          THEN ~Accepted(part.content_type)
          ELSE ~Accepted(mimetype)

\* a part refused for its content type with its stream untouched
C4_Witness ==
    /\ OnPart /\ pc = "done" /\ L > 0
    /\ resp.error = "ContentTypeNotAllowed"
    /\ reads = 0

\* a base64 upload refused for its content type after the decode
C4_WitnessBase64 ==
    /\ handler = "on_post_base64" /\ pc = "done"
    /\ resp.error = "ContentTypeNotAllowed"
    /\ decodes = 1

ValidationFails ==
    \/ /\ OnPart
       /\ \/ ~Accepted(part.content_type)
          \/ L > max_file_size
          \/ resp.error = "UnidentifiedImageError"
    \/ /\ handler = "on_post_base64"
       /\ \/ body.json \in {"invalid", "not_object"}
          \/ /\ body.json = "object"
             /\ \/ body.file_name = <<>>
                \/ body.base64 = <<>>
                \/ get_base64_file_length(body.base64) > 4 * max_file_size
                \/ ~decode_base64_file(body.base64).ok
                \/ guess(decode_base64_file(body.base64).bytes) = "None"
                \/ ~Accepted(
                       guess(decode_base64_file(body.base64).bytes))
                \/ exc = "UnidentifiedImageError"

\* C6: every validation or decoding failure ends the request with one 400
\* answer, no exception leaves the handler and create_file is not called.
C6_AsStated ==
    (pc = "done" /\ ValidationFails) =>
        /\ exc = "None"
        /\ resp.count = 1
        /\ resp.status = 400
        /\ calls = <<>>

\* C7: when the primary create_file returns no record, the handler answers 500
\* with the one entry {"Filename": filename, "Error": problem saving}, no
\* thumbnail entry, no exception, and no second create_file call.
C7_PrimaryFailure ==
    (pc = "done" /\ calls # <<>> /\ ~calls[1].saved) =>
        /\ Len(calls) = 1
        /\ calls[1].is_thumbnail = 0
        /\ exc = "None"
        /\ resp.count = 1
        /\ resp.status = 500
        /\ resp.data = <<FileError(calls[1].file_name)>>
        /\ resp.data[1].message = PROBLEM_SAVING_TO_DB

\* the primary create_file failed for an image whose thumbnail was asked for
C7_Witness ==
    /\ pc = "done" /\ calls # <<>> /\ ~calls[1].saved
    /\ check_if_make_thumbnail(params)
    /\ calls[1].file_type \in IMAGE_EXTENSIONS
    /\ resp.status = 500

\* C8: a second create_file call, with is_thumbnail set, is made if and only if
\* the thumbnail was asked for, the content type is an image type and the
\* primary create_file returned a record; other types skip the branch without
\* error; a thumbnail that is not saved leaves the primary entry and the 201.
C8_AsStated ==
    (pc = "done" /\ calls # <<>>) =>
        LET wanted == /\ check_if_make_thumbnail(params)
                      /\ calls[1].file_type \in IMAGE_EXTENSIONS
                      /\ calls[1].saved
            made == Len(calls) = 2 /\ calls[2].is_thumbnail = 1
        IN /\ made <=> wanted
           /\ ~wanted => exc = "None"
           /\ made => /\ resp.status = 201
                      /\ resp.data[1] = serialize_model(calls[1])

\* the thumbnail name the claim gives: "_thumbnail" before the last dot, or at
\* the end of a name without a dot
LastDot(s) == IF \E i \in 1..Len(s) : s[i] = "."
              THEN CHOOSE i \in 1..Len(s) :
                      s[i] = "." /\ \A j \in (i + 1)..Len(s) : s[j] # "."
              ELSE 0
ExpectedThumbnailName(s) ==
    IF LastDot(s) = 0 THEN s \o THUMBNAIL
    ELSE SubSeq(s, 1, LastDot(s) - 1) \o THUMBNAIL \o <<".">>
         \o SubSeq(s, LastDot(s) + 1, Len(s))

\* C9: the thumbnail of every file name is named <basename>_thumbnail.<ext>,
\* the extension being what follows the last dot, and <basename>_thumbnail
\* when the name has no dot.
C9_AsStated ==
    (handler = "create_thumbnail" /\ pc = "done") =>
        calls[1].file_name = ExpectedThumbnailName(part.filename)

\* C10: a multipart POST with no id and a session ends with exactly one
\* response, with a status and data, for any number of parts.
C10_AsStated ==
    (handler = "on_post" /\ id = 0 /\ session /\ pc = "done") =>
        /\ exc = "None"
        /\ resp.count = 1
        /\ resp.status \in {201, 400, 500}

====
